---- MODULE Spec2Model ----
(***************************************************************************)
(* Model of examples/titanic/titanic_classification.py: the cabin parser   *)
(* get_cabin_floor_and_number and the script's main(): feature             *)
(* engineering on the data frame, the DataSet context, and the 3-fold      *)
(* cross-validation loop that accumulates and logs the average accuracy.   *)
(***************************************************************************)
EXTENDS Integers, Sequences, FiniteSets, TLC

VARIABLES
    cabin_pc, cabin_arg, cabin_ret,      \* one call of get_cabin_floor_and_number
    pc,                                  \* position in main()
    n_rows, titanic,                     \* the data frame: row count, column -> values
    jvm_attached, created,               \* bayespy.jni.attach done; library objects built
    ctx, exits, dataset,                 \* the DataSet context manager and what it holds
    kf, k, train_indexes, test_indexes,  \* the KFold iterator and the loop variables
    model, training_result, test_model, results,
    score, fold_scores, logged

cabinVars == <<cabin_pc, cabin_arg, cabin_ret>>
mainVars == <<pc, n_rows, titanic, jvm_attached, created, ctx, exits, dataset,
              kf, k, train_indexes, test_indexes, model, training_result,
              test_model, results, score, fold_scores, logged>>
libVars == <<jvm_attached, created, ctx, exits, dataset>>
cvVars == <<kf, k, train_indexes, test_indexes, model, training_result, test_model,
            results, score, fold_scores, logged>>
vars == <<cabinVars, mainVars>>

----------------------------------------------------------------------------
(* Bounds of the model *)
MaxLen == 5      \* longest cabin string explored for the parser
MaxRows == 4     \* most rows in the data frame explored for main()

----------------------------------------------------------------------------
(* Python values: a str (s), a float/int (n) or NaN *)
Str(s) == [t |-> "str", s |-> s, n |-> 0]
Num(n) == [t |-> "num", s |-> <<>>, n |-> n]
NaN == [t |-> "nan", s |-> <<>>, n |-> 0]
None == [t |-> "none", s |-> <<>>, n |-> 0]

(* Characters of the explored strings, with their code points *)
Chars == {" ", "2", "7", "C", "G", "a"}
Ord(c) == CASE c = " " -> 32 [] c = "2" -> 50 [] c = "7" -> 55
            [] c = "C" -> 67 [] c = "G" -> 71 [] c = "a" -> 97

\* [A-Z]
IsUpperAZ(c) == Ord(c) >= 65 /\ Ord(c) <= 90
\* [0-9]
IsDigit09(c) == Ord(c) >= 48 /\ Ord(c) <= 57

\* {1,3}: the repetition bounds of the second group
MinDigits == 1
MaxDigits == 3

\* str.split(" "): cut at every single space, keeping empty pieces
RECURSIVE split(_, _)
split(s, cur) ==
    IF s = <<>> THEN <<cur>>
    ELSE IF Head(s) = " " THEN <<cur>> \o split(Tail(s), <<>>)
    ELSE split(Tail(s), Append(cur, Head(s)))

\* the greedy [0-9]{1,3}: the longest run of digits at the front of s, at most max long
RECURSIVE DigitRun(_, _)
DigitRun(s, max) ==
    IF max = 0 \/ s = <<>> \/ ~IsDigit09(Head(s)) THEN <<>>
    ELSE <<Head(s)>> \o DigitRun(Tail(s), max - 1)

\* one digit only: a non-greedy or {1} group
GroupNumberOneDigit(tok) == DigitRun(Tail(tok), MinDigits)
\* match.group(2)
GroupNumber(tok) == DigitRun(Tail(tok), MaxDigits)

\* re.search instead of re.match: the pattern may start anywhere in the token
ReSearchMatches(tok) ==
    \E i \in 1..(Len(tok) - 1) : IsUpperAZ(tok[i]) /\ IsDigit09(tok[i + 1])
\* re.match(pattern, tok) is not None: the pattern matches at the start of tok
ReMatches(tok) ==
    /\ Len(tok) >= 1 + MinDigits
    /\ IsUpperAZ(tok[1])
    /\ Len(GroupNumber(tok)) >= MinDigits

\* the for loop over cabins: the first token that matches decides
RECURSIVE ScanCabins(_)
ScanCabins(cabins) ==
    IF cabins = <<>> THEN <<Str(<<>>), NaN>>
    ELSE IF ReMatches(Head(cabins))
         THEN <<Str(<<Head(cabins)[1]>>), Str(GroupNumber(Head(cabins)))>>
         ELSE ScanCabins(Tail(cabins))

get_cabin_floor_and_number(cabin) ==
    IF cabin.t # "str" THEN <<Str(<<>>), NaN>>
    ELSE ScanCabins(split(cabin.s, <<>>))

----------------------------------------------------------------------------
(* Inputs of the parser: every string over Chars up to MaxLen, and non-strings *)
RECURSIVE StringsUpTo(_)
StringsUpTo(len) ==
    IF len = 0 THEN {<<>>}
    ELSE LET shorter == StringsUpTo(len - 1)
         IN shorter \cup {Append(s, c) : s \in {x \in shorter : Len(x) = len - 1}, c \in Chars}

CabinInputs == {Str(s) : s \in StringsUpTo(MaxLen)} \cup {NaN, Num(7)}

(* Idle values of main()'s state, before the frame is loaded *)
MainIdle ==
    /\ pc = "idle" /\ n_rows = 0 /\ titanic = <<>>
    /\ jvm_attached = FALSE /\ created = {}
    /\ ctx = "none" /\ exits = 0 /\ dataset = None
    /\ kf = <<>> /\ k = 0 /\ train_indexes = {} /\ test_indexes = {}
    /\ model = None /\ training_result = None /\ test_model = None /\ results = None
    /\ score = <<0, 1>> /\ fold_scores = <<>> /\ logged = <<>>

InitCabin ==
    /\ cabin_pc = "call"
    /\ cabin_arg \in CabinInputs
    /\ cabin_ret = <<None, None>>
    /\ MainIdle

CallCabin ==
    /\ cabin_pc = "call"
    /\ cabin_ret' = get_cabin_floor_and_number(cabin_arg)
    /\ cabin_pc' = "returned"
    /\ UNCHANGED <<cabin_arg, mainVars>>

NextCabin == CallCabin

SpecCabin == InitCabin /\ [][NextCabin]_vars

----------------------------------------------------------------------------
(* main(): the data frame read from data/train.csv *)
\* the passengers the rows are drawn from: cabin missing, without a number, or with one
PassengerSamples ==
    { [Cabin |-> NaN, Survived |-> 0],
      [Cabin |-> NaN, Survived |-> 1],
      [Cabin |-> Str(<<"G">>), Survived |-> 1],
      [Cabin |-> Str(<<"G", " ", "C", "2", "7">>), Survived |-> 0] }
SurvivedValues == {0, 1}
DroppedColumns == {"Cabin", "Ticket", "Name", "PassengerId"}
AddedColumns == {"Floor", "CabinNumber"}
CsvColumns == {"PassengerId", "Survived", "Pclass", "Name", "Age", "Ticket", "Cabin"}

CsvFrame(n, passengers) ==
    [c \in CsvColumns |->
        [i \in 1..n |->
            CASE c = "PassengerId" -> Num(i)
              [] c = "Survived" -> Num(passengers[i].Survived)
              [] c = "Pclass" -> Num(3)
              [] c = "Name" -> Str(<<"a">>)
              [] c = "Age" -> NaN
              [] c = "Ticket" -> Str(<<"2">>)
              [] c = "Cabin" -> passengers[i].Cabin]]

k_folds == 3

Init ==
    /\ cabin_pc = "unused" /\ cabin_arg = None /\ cabin_ret = <<None, None>>
    /\ pc = "L31"
    /\ n_rows \in 0..MaxRows
    /\ \E passengers \in [1..n_rows -> PassengerSamples] :
          titanic = CsvFrame(n_rows, passengers)
    /\ jvm_attached = FALSE /\ created = {}
    /\ ctx = "none" /\ exits = 0 /\ dataset = None
    /\ kf = <<>> /\ k = 0 /\ train_indexes = {} /\ test_indexes = {}
    /\ model = None /\ training_result = None /\ test_model = None /\ results = None
    /\ score = <<0, 1>> /\ fold_scores = <<>> /\ logged = <<>>

\* float("23") for a string of digits; NaN stays NaN
RECURSIVE ParseDigits(_, _)
ParseDigits(s, acc) ==
    IF s = <<>> THEN acc ELSE ParseDigits(Tail(s), acc * 10 + (Ord(Head(s)) - 48))
astype_float(v) == IF v.t = "str" THEN Num(ParseDigits(v.s, 0)) ELSE v

\* Series.replace("", np.nan)
replace_empty(v) == IF v = Str(<<>>) THEN NaN ELSE v

\* titanic['Floor'], titanic['CabinNumber'] = zip(*titanic.Cabin.map(...))
\* zip(*[]) yields nothing to unpack when the frame has no rows: ValueError
MapCabin ==
    /\ pc = "L31"
    /\ IF n_rows = 0
       THEN pc' = "error" /\ UNCHANGED titanic
       ELSE /\ titanic' = [c \in DOMAIN titanic \cup AddedColumns |->
                             IF c = "Floor"
                             THEN [i \in 1..n_rows |-> get_cabin_floor_and_number(titanic["Cabin"][i])[1]]
                             ELSE IF c = "CabinNumber"
                             THEN [i \in 1..n_rows |-> get_cabin_floor_and_number(titanic["Cabin"][i])[2]]
                             ELSE titanic[c]]
            /\ pc' = "L32"
    /\ UNCHANGED <<cabinVars, n_rows, libVars, cvVars>>

\* titanic.CabinNumber = titanic.CabinNumber.astype(float)
CabinNumberAsFloat ==
    /\ pc = "L32"
    /\ titanic' = [titanic EXCEPT !["CabinNumber"] = [i \in 1..n_rows |-> astype_float(@[i])]]
    /\ pc' = "L33"
    /\ UNCHANGED <<cabinVars, n_rows, libVars, cvVars>>

\* a replace that does not reach the frame: the Floor column keeps its empty strings
FloorNotReplaced(col) == col
\* titanic.Floor.replace("", np.nan, inplace=True): titanic.Floor is the frame's own
\* column in the pandas releases that sklearn.cross_validation runs with, so the
\* in-place replace reaches the frame
FloorReplaced(col) == [i \in DOMAIN col |-> replace_empty(col[i])]

ReplaceFloor ==
    /\ pc = "L33"
    /\ titanic' = [titanic EXCEPT !["Floor"] = FloorReplaced(@)]
    /\ pc' = "L34"
    /\ UNCHANGED <<cabinVars, n_rows, libVars, cvVars>>

\* a drop list that also names the target
DropListWithTarget == DroppedColumns \cup {"Survived"}
\* the list given to titanic.drop
DropList == DroppedColumns

\* titanic.drop(['Cabin', 'Ticket', 'Name', 'PassengerId'], inplace=True, axis=1)
DropColumns ==
    /\ pc = "L34"
    /\ titanic' = [c \in DOMAIN titanic \ DropList |-> titanic[c]]
    /\ pc' = "L41"
    /\ UNCHANGED <<cabinVars, n_rows, libVars, cvVars>>

\* logger set-up, then bayespy.jni.attach(logger)
AttachJVM ==
    /\ pc = "L41"
    /\ jvm_attached' = TRUE
    /\ pc' = "L44"
    /\ UNCHANGED <<cabinVars, n_rows, titanic, created, ctx, exits, dataset, cvVars>>

\* AutoType(titanic), NetworkFactory(logger), the discrete and continuous sub-frames
CreateFactory ==
    /\ pc = "L44"
    /\ created' = created \cup {"AutoType", "NetworkFactory"}
    /\ pc' = "L51"
    /\ UNCHANGED <<cabinVars, n_rows, titanic, jvm_attached, ctx, exits, dataset, cvVars>>

\* with bayespy.data.DataSet(titanic, db_folder, logger) as dataset:
EnterDataSet ==
    /\ pc = "L51"
    /\ dataset' = [frame |-> titanic]
    /\ created' = created \cup {"DataSet"}
    /\ ctx' = "entered"
    /\ pc' = "L54"
    /\ UNCHANGED <<cabinVars, n_rows, titanic, jvm_attached, exits, cvVars>>

\* NetworkWithoutEdges, AutoStructure(tpl, dataset, logger), structure_tpl.create
LearnStructure ==
    /\ pc = "L54"
    /\ created' = created \cup {"NetworkWithoutEdges", "AutoStructure", "learned_network"}
    /\ pc' = "L63"
    /\ UNCHANGED <<cabinVars, n_rows, titanic, jvm_attached, ctx, exits, dataset, cvVars>>

\* bayespy.template.MixtureNaiveBayes(...)
CreateTemplate ==
    /\ pc = "L63"
    /\ created' = created \cup {"MixtureNaiveBayes"}
    /\ pc' = "L65"
    /\ UNCHANGED <<cabinVars, n_rows, titanic, jvm_attached, ctx, exits, dataset, cvVars>>

\* an exception that leaves the block without the context being closed
CtxLeftOpen(c) == c
\* the with statement: an exception leaving the block runs __exit__, like its normal end
CtxAfterBlock(c) == "exited"

\* KFold called with one row too few
KFoldRowsShort == n_rows - 1
\* titanic.shape[0]
KFoldRows == n_rows

\* KFold(n, n_folds, shuffle=True): a shuffled arange(n) cut into n_folds consecutive
\* slices, the first n % n_folds one longer; each slice is one fold's test indexes and
\* the rest of the indexes its train indexes
FoldSize(n, n_folds, i) == (n \div n_folds) + (IF i <= n % n_folds THEN 1 ELSE 0)
RECURSIVE FoldStart(_, _, _)
FoldStart(n, n_folds, i) ==
    IF i = 1 THEN 0 ELSE FoldStart(n, n_folds, i - 1) + FoldSize(n, n_folds, i - 1)
KFoldOf(perm, n, n_folds) ==
    [i \in 1..n_folds |->
        LET test == {perm[j] : j \in FoldStart(n, n_folds, i)..
                                    (FoldStart(n, n_folds, i) + FoldSize(n, n_folds, i) - 1)}
        IN [train |-> (0..(n - 1)) \ test, test |-> test]]
KFold(n, n_folds) == {KFoldOf(perm, n, n_folds) : perm \in Permutations(0..(n - 1))}

\* k_folds = 3; kf = KFold(...); score = 0.  KFold raises ValueError when there are
\* fewer rows than folds, which leaves the with block
MakeKFold ==
    /\ pc = "L65"
    /\ IF KFoldRows < k_folds
       THEN /\ pc' = "error"
            /\ ctx' = CtxAfterBlock(ctx)
            /\ exits' = IF ctx' = "exited" THEN exits + 1 ELSE exits
            /\ UNCHANGED <<kf, score>>
       ELSE /\ kf' \in KFold(KFoldRows, k_folds)
            /\ score' = <<0, 1>>
            /\ pc' = "L70"
            /\ UNCHANGED <<ctx, exits>>
    /\ UNCHANGED <<cabinVars, n_rows, titanic, jvm_attached, created, dataset, k,
                   train_indexes, test_indexes, model, training_result, test_model,
                   results, fold_scores, logged>>

\* for k, (train_indexes, test_indexes) in enumerate(kf):
ForNext ==
    /\ pc = "L70"
    /\ IF k < Len(kf)
       THEN /\ train_indexes' = kf[k + 1].train
            /\ test_indexes' = kf[k + 1].test
            /\ k' = k + 1
            /\ pc' = "L71"
       ELSE /\ pc' = "L89"
            /\ UNCHANGED <<k, train_indexes, test_indexes>>
    /\ UNCHANGED <<cabinVars, n_rows, titanic, libVars, kf, model, training_result,
                   test_model, results, score, fold_scores, logged>>

\* dataset.subset(indexes): the rows of the written frame at these positions
subset(ds, indexes) == [columns |-> DOMAIN ds.frame, rows |-> indexes]

\* model = NetworkModel(mixture_naive_bayes_tpl.create(network_factory),
\*                      dataset.subset(train_indexes), logger)
BuildModel ==
    /\ pc = "L71"
    /\ model' = [network |-> [template |-> "MixtureNaiveBayes", trained_on |-> {}, fold |-> 0],
                 data |-> subset(dataset, train_indexes)]
    /\ created' = created \cup {"network", "NetworkModel"}
    /\ pc' = "L76"
    /\ UNCHANGED <<cabinVars, n_rows, titanic, jvm_attached, ctx, exits, dataset, kf, k,
                   train_indexes, test_indexes, training_result, test_model, results,
                   score, fold_scores, logged>>

\* training_result = model.train(): the model's network fitted to the model's data
Train ==
    /\ pc = "L76"
    /\ training_result' = [network |-> [model.network EXCEPT !.trained_on = model.data.rows,
                                                             !.fold = k]]
    /\ pc' = "L79"
    /\ UNCHANGED <<cabinVars, n_rows, titanic, libVars, kf, k, train_indexes, test_indexes,
                   model, test_model, results, score, fold_scores, logged>>

\* the test model built on the rows the network was trained on
TestModelRowsTrain == train_indexes
\* the indexes given to dataset.subset for the test model
TestModelRows == test_indexes

\* test_model = NetworkModel(training_result['network'], dataset.subset(test_indexes), logger)
BuildTestModel ==
    /\ pc = "L79"
    /\ test_model' = [network |-> training_result.network,
                      data |-> subset(dataset, TestModelRows)]
    /\ pc' = "L83"
    /\ UNCHANGED <<cabinVars, n_rows, titanic, libVars, kf, k, train_indexes, test_indexes,
                   model, training_result, results, score, fold_scores, logged>>

\* results = test_model.batch_query(QueryMostLikelyState("Survived", ...)): the rows of
\* the test model's data with one more column, Survived_maxlikelihood, whose values the
\* trained network decides
BatchQuery ==
    /\ pc = "L83"
    /\ \E pred \in [test_model.data.rows -> SurvivedValues] :
          results' = [rows |-> test_model.data.rows,
                      network |-> test_model.network,
                      Survived |-> [r \in test_model.data.rows |-> dataset.frame["Survived"][r + 1].n],
                      Survived_maxlikelihood |-> pred]
    /\ pc' = "L87"
    /\ UNCHANGED <<cabinVars, n_rows, titanic, libVars, kf, k, train_indexes, test_indexes,
                   model, training_result, test_model, score, fold_scores, logged>>

\* Series.tolist(): the column's values in row order
RECURSIVE tolist(_, _)
tolist(col, rows) ==
    IF rows = {} THEN <<>>
    ELSE LET r == CHOOSE x \in rows : \A y \in rows : x <= y
         IN <<col[r]>> \o tolist(col, rows \ {r})

\* accuracy_score(y_true, y_pred): the fraction of positions where the two lists agree
RECURSIVE CountEqual(_, _)
CountEqual(a, b) ==
    IF a = <<>> THEN 0
    ELSE (IF Head(a) = Head(b) THEN 1 ELSE 0) + CountEqual(Tail(a), Tail(b))
accuracy_score(y_true, y_pred) == <<CountEqual(y_true, y_pred), Len(y_true)>>

\* exact fractions <<numerator, denominator>>
RatAdd(a, b) == <<a[1] * b[2] + b[1] * a[2], a[2] * b[2]>>
RatDiv(a, m) == <<a[1], a[2] * m>>

\* score = accuracy: the last fold's accuracy replaces the sum
ScoreOverwritten(s, a) == a
\* score += accuracy
ScoreAdded(s, a) == RatAdd(s, a)

AddScore ==
    /\ pc = "L87"
    /\ LET acc == accuracy_score(tolist(results.Survived, results.rows),
                                 tolist(results.Survived_maxlikelihood, results.rows))
       IN /\ score' = ScoreAdded(score, acc)
          /\ fold_scores' = Append(fold_scores, acc)
    /\ pc' = "L70"
    /\ UNCHANGED <<cabinVars, n_rows, titanic, libVars, kf, k, train_indexes, test_indexes,
                   model, training_result, test_model, results, logged>>

\* logger.info("Average score was {}. ...".format(score / k_folds))
LogScore ==
    /\ pc = "L89"
    /\ logged' = Append(logged, RatDiv(score, k_folds))
    /\ pc' = "exit"
    /\ UNCHANGED <<cabinVars, n_rows, titanic, libVars, kf, k, train_indexes, test_indexes,
                   model, training_result, test_model, results, score, fold_scores>>

\* the end of the with block: DataSet.__exit__
ExitDataSet ==
    /\ pc = "exit"
    /\ ctx' = CtxAfterBlock(ctx)
    /\ exits' = exits + 1
    /\ pc' = "done"
    /\ UNCHANGED <<cabinVars, n_rows, titanic, jvm_attached, created, dataset, cvVars>>

Next ==
    \/ MapCabin \/ CabinNumberAsFloat \/ ReplaceFloor \/ DropColumns
    \/ AttachJVM \/ CreateFactory \/ EnterDataSet \/ LearnStructure \/ CreateTemplate
    \/ MakeKFold \/ ForNext \/ BuildModel \/ Train \/ BuildTestModel \/ BatchQuery
    \/ AddScore \/ LogScore \/ ExitDataSet

Spec == Init /\ [][Next]_vars

----------------------------------------------------------------------------
(* What the cabin pattern means, stated on the positions of the string *)
UpperLetters == {"C", "G"}
Digits == {"2", "7"}

\* a token starts at position a: at the front of the string or right after a space
TokenStartsAt(s, a) == a \in 1..Len(s) /\ (a = 1 \/ s[a - 1] = " ")
\* the token starting at a begins with an uppercase letter followed by a digit
CabinAt(s, a) ==
    /\ TokenStartsAt(s, a)
    /\ s[a] \in UpperLetters
    /\ a + 1 <= Len(s)
    /\ s[a + 1] \in Digits
HasCabin(s) == \E a \in 1..Len(s) : CabinAt(s, a)
FirstCabin(s) == CHOOSE a \in 1..Len(s) : CabinAt(s, a) /\ \A b \in 1..(a - 1) : ~CabinAt(s, b)
\* how many digits follow the letter at a, counting at most three
DigitsAfter(s, a) ==
    CHOOSE d \in 1..3 :
        /\ a + d <= Len(s)
        /\ \A j \in 1..d : s[a + j] \in Digits
        /\ (d = 3 \/ a + d = Len(s) \/ s[a + d + 1] \notin Digits)

\* C1: for a string cabin with a token that starts with an uppercase letter followed
\* by a digit, get_cabin_floor_and_number returns, from the first such token in
\* left-to-right order, the letter as floor and the 1 to 3 digits after it as number.
C1_FirstMatchingToken ==
    (cabin_pc = "returned" /\ cabin_arg.t = "str" /\ HasCabin(cabin_arg.s)) =>
        LET s == cabin_arg.s
            a == FirstCabin(s)
        IN cabin_ret = <<Str(<<s[a]>>), Str(SubSeq(s, a + 1, a + DigitsAfter(s, a)))>>

\* "G C27": the first token does not match, the second does
C1_Witness ==
    /\ cabin_pc = "returned"
    /\ cabin_arg = Str(<<"G", " ", "C", "2", "7">>)
    /\ cabin_ret = <<Str(<<"C">>), Str(<<"2", "7">>)>>

\* C5: for a non-string cabin, and for a string none of whose tokens starts with an
\* uppercase letter followed by a digit, get_cabin_floor_and_number returns ("", NaN).
C5_NoMatchGivesEmptyAndNaN ==
    (cabin_pc = "returned" /\ (cabin_arg.t # "str" \/ ~HasCabin(cabin_arg.s))) =>
        cabin_ret = <<Str(<<>>), NaN>>

\* a lowercase letter in front of a cabin keeps the token from matching
C5_Witness ==
    /\ cabin_pc = "returned"
    /\ cabin_arg = Str(<<"a", "C", "2">>)
    /\ cabin_ret = <<Str(<<>>), NaN>>

----------------------------------------------------------------------------
AllRows == 0..(n_rows - 1)
InLoopBody == pc \in {"L71", "L76", "L79", "L83", "L87"}
AfterLoop == pc \in {"L89", "exit", "done"}

\* C2: the cross-validation has exactly k_folds = 3 folds over the row indexes
\* 0..N-1; in every fold train and test indexes are disjoint and together are all
\* rows; every row is in exactly one fold's test indexes; the loop body runs once per
\* fold, on that fold's indexes, and the loop is left after the third.
C2_ThreeFoldPartition ==
    /\ (pc \in {"L70"} \cup {"L71", "L76", "L79", "L83", "L87", "L89", "exit", "done"}) =>
          /\ Len(kf) = 3
          /\ \A i \in 1..Len(kf) :
                /\ kf[i].train \cap kf[i].test = {}
                /\ kf[i].train \cup kf[i].test = AllRows
          /\ \A r \in AllRows : Cardinality({i \in 1..Len(kf) : r \in kf[i].test}) = 1
    /\ InLoopBody =>
          /\ k \in 1..3
          /\ train_indexes = kf[k].train
          /\ test_indexes = kf[k].test
    /\ AfterLoop => k = 3

\* four rows: one fold has two test rows, the other two one each
C2_Witness ==
    /\ pc = "done" /\ n_rows = 4 /\ k = 3
    /\ Cardinality(kf[1].test) = 2 /\ Cardinality(kf[3].test) = 1

\* equality and order of fractions <<numerator, denominator>> with positive denominators
RatEq(a, b) == a[1] * b[2] = b[1] * a[2]
RatLeq(a, b) == a[1] * b[2] <= b[1] * a[2]
\* the sum of a list of fractions over the product of their denominators
RECURSIVE DenProduct(_)
DenProduct(fs) == IF fs = <<>> THEN 1 ELSE Head(fs)[2] * DenProduct(Tail(fs))
RECURSIVE NumSum(_, _)
NumSum(fs, den) ==
    IF fs = <<>> THEN 0 ELSE Head(fs)[1] * (den \div Head(fs)[2]) + NumSum(Tail(fs), den)
SumOf(fs) == <<NumSum(fs, DenProduct(fs)), DenProduct(fs)>>

\* C3: each iteration adds to score the fold's accuracy, the fraction of the fold's
\* test rows whose Survived_maxlikelihood equals Survived; score is the sum of the
\* accuracies so far, starting at 0; the loop runs 3 times; the single log line after
\* it reports score / 3, the unweighted mean of the 3 accuracies, between 0 and 1.
C3_LoggedScoreIsMeanAccuracy ==
    /\ RatEq(score, SumOf(fold_scores))
    /\ (pc = "L70" /\ k >= 1) =>
          /\ Len(fold_scores) = k
          /\ results.rows = kf[k].test
          /\ fold_scores[k] =
                <<Cardinality({r \in results.rows :
                                 results.Survived_maxlikelihood[r] = results.Survived[r]}),
                  Cardinality(results.rows)>>
    /\ AfterLoop => Len(fold_scores) = 3
    /\ (pc \in {"exit", "done"}) =>
          /\ Len(logged) = 1
          /\ RatEq(<<logged[1][1] * 3, logged[1][2]>>, SumOf(fold_scores))
          /\ RatLeq(<<0, 1>>, logged[1])
          /\ RatLeq(logged[1], <<1, 1>>)
    /\ (pc \notin {"exit", "done"}) => logged = <<>>

\* accuracies 1/2, 1, 1 on folds of 2, 1 and 1 rows: the mean is 5/6, not 3/4
C3_Witness ==
    /\ pc = "done"
    /\ fold_scores = <<<<1, 2>>, <<1, 1>>, <<1, 1>>>>
    /\ RatEq(logged[1], <<5, 6>>)

\* C4: the feature engineering only adds Floor and CabinNumber and removes Cabin,
\* Ticket, Name and PassengerId; no step changes any other column; Survived stays in
\* the frame, in the data written to the dataset and in every fold's train and test
\* subset.
C4_FrameStep ==
    /\ \A c \in (DOMAIN titanic \cap DOMAIN titanic') \ AddedColumns : titanic'[c] = titanic[c]
    /\ (DOMAIN titanic' # DOMAIN titanic) =>
          \/ pc = "L31" /\ DOMAIN titanic' = DOMAIN titanic \cup AddedColumns
          \/ pc = "L34" /\ DOMAIN titanic' = DOMAIN titanic \ DroppedColumns
    /\ (pc' \notin {"L31", "L32", "L33", "L34", "error"}) =>
          /\ DOMAIN titanic' = (CsvColumns \cup AddedColumns) \ DroppedColumns
          /\ "Survived" \in DOMAIN titanic'
    /\ (ctx' # "none") =>
          /\ DOMAIN dataset'.frame = (CsvColumns \cup AddedColumns) \ DroppedColumns
          /\ dataset'.frame["Survived"] = titanic'["Survived"]
    /\ (pc' \in {"L76", "L79", "L83", "L87"}) => "Survived" \in model'.data.columns
    /\ (pc' \in {"L83", "L87"}) => "Survived" \in test_model'.data.columns
C4_OnlyDescribedColumnsChange == [][C4_FrameStep]_vars

C4_Witness ==
    /\ pc = "L87" /\ n_rows = 4
    /\ DOMAIN titanic = {"Survived", "Pclass", "Age", "Floor", "CabinNumber"}
    /\ "Survived" \in model.data.columns /\ "Survived" \in test_model.data.columns

\* C6: in each fold the model is built on the train subset and trained; the test
\* model is built from the network of that fold's training result and on the test
\* subset, after training; the batch query runs on that test model, so the rows
\* scored are the fold's test rows and none of its train rows.
C6_FoldOrder ==
    /\ (pc \in {"L76", "L79", "L83", "L87"}) => model.data.rows = kf[k].train
    /\ (pc = "L76") =>
          /\ model.network.trained_on = {}
          /\ training_result = None \/ training_result.network.fold < k
          /\ test_model = None \/ test_model.network.fold < k
    /\ (pc = "L79") =>
          /\ training_result.network.fold = k
          /\ training_result.network.trained_on = kf[k].train
          /\ test_model = None \/ test_model.network.fold < k
    /\ (pc \in {"L83", "L87"}) =>
          /\ test_model.network = training_result.network
          /\ test_model.network.fold = k
          /\ test_model.network.trained_on = kf[k].train
          /\ test_model.data.rows = kf[k].test
    /\ (pc = "L83") => (results = None \/ results.network.fold < k)
    /\ (pc = "L87") =>
          /\ results.network = test_model.network
          /\ results.rows = kf[k].test
          /\ results.rows \cap kf[k].train = {}

C6_Witness ==
    /\ pc = "L87" /\ k = 2 /\ n_rows = 4
    /\ results.network.fold = 2
    /\ results.rows = kf[2].test
    /\ results.network.trained_on = kf[2].train

\* C7: the JVM is attached before any library object is created; the dataset is only
\* used while the DataSet context is entered; the context is exited exactly once: at
\* the end of the block, after the last fold and the log line, or when an exception
\* leaves the block; nothing runs with the dataset after the exit.
C7_JvmAndContextOrder ==
    /\ (created # {}) => jvm_attached
    /\ (pc \in {"L54", "L71", "L76", "L79", "L83"}) => ctx = "entered"
    /\ (ctx = "none") <=> ("DataSet" \notin created)
    /\ (ctx = "entered") => exits = 0
    /\ (ctx = "exited") => (exits = 1 /\ pc \in {"done", "error"})
    /\ (pc = "done") => (ctx = "exited" /\ k = 3 /\ Len(logged) = 1)
    /\ (pc = "exit") => (ctx = "entered" /\ k = 3 /\ Len(logged) = 1)
    /\ (pc = "error" /\ "DataSet" \in created) => ctx = "exited"

\* KFold raised inside the block (two rows, three folds) and the context was closed
C7_Witness ==
    /\ pc = "error" /\ n_rows = 2
    /\ "DataSet" \in created /\ jvm_attached
    /\ ctx = "exited" /\ exits = 1

\* C8: once the feature engineering is done, in every row Floor is NaN exactly when
\* CabinNumber is NaN; a row whose cabin has a matching token has a one-letter Floor
\* and a numeric CabinNumber, and a row without one has both NaN.
C8_FloorMissingIffNumberMissing ==
    (pc \notin {"L31", "L32", "L33"} /\ "Floor" \in DOMAIN titanic) =>
        \A i \in 1..n_rows :
            /\ (titanic["Floor"][i] = NaN) <=> (titanic["CabinNumber"][i] = NaN)
            /\ (titanic["Floor"][i] # NaN) =>
                  /\ titanic["Floor"][i].t = "str" /\ Len(titanic["Floor"][i].s) = 1
                  /\ titanic["CabinNumber"][i].t = "num"
            /\ (pc = "L34") =>
                  LET cabin == titanic["Cabin"][i]
                  IN (titanic["Floor"][i] # NaN) <=> (cabin.t = "str" /\ HasCabin(cabin.s))

\* one row has cabin C27, another has no cabin that matches
C8_Witness ==
    /\ pc = "L41"
    /\ \E i, j \in 1..n_rows :
          /\ titanic["Floor"][i] = Str(<<"C">>) /\ titanic["CabinNumber"][i] = Num(27)
          /\ titanic["Floor"][j] = NaN /\ titanic["CabinNumber"][j] = NaN

====
